---- MODULE Spec2Model ----
(***************************************************************************)
(* Promotional-email campaign pipeline of ShirijaangaServer.               *)
(*                                                                         *)
(* Modelled: the start-campaign request (emailMiddleware.js +              *)
(* sendPromotionalEmail), the detached batch loop sendEmailsInBackground,  *)
(* cancelPromotionalEmail, the EmailService singleton with its cached      *)
(* configuration document, the EmailConfig document in the database and    *)
(* the PromotionalEmail collection.                                        *)
(*                                                                         *)
(* A mongoose document in memory and the document in the database are      *)
(* separate pieces of state: save() copies the modified schema paths of    *)
(* the in-memory document to the database.                                 *)
(*                                                                         *)
(* Spec and SpecAssumed follow one campaign and the quota fields of the    *)
(* active configuration.  SpecProgress runs one campaign of four batches.  *)
(* SpecConfig and SpecCounters follow the EmailConfig collection document  *)
(* by document: setEmailConfig and initializeTransporter step by step at   *)
(* their awaits, with every counter of the document.                       *)
(***************************************************************************)
EXTENDS Integers, Sequences, FiniteSets, TLC

\* ------------------------------------------------------------------ bounds
MaxTestSent == 1
MaxRecipients == 2
SmallDailyLimit == 2
MaxDay == 1
MaxConfigs == 2
MaxSends == 2
MaxWindow == 3
MaxEmails == 2
MaxInitialize == 2
MaxRuns == 1
MaxSuspicious == 2

\* ------------------------------------------------------- program constants
batchSize == 10
DefaultDailyLimit == 500

\* Inputs of the requests: the number of students with a valid address (a
\* few, or one more than a batch holds) and the dailyLimit of a new
\* configuration (small, or the schema default).
RecipientChoices == 0..MaxRecipients
LongChoices == {batchSize + 1}
ProgressChoices == {4 * batchSize}
DailyLimitChoices == {SmallDailyLimit, DefaultDailyLimit}

\* The model follows one campaign.  Campaigns are started one at a time
\* (spec section 5) and a campaign meets earlier use of the configuration
\* only through its counters, which test emails move as well.
Campaigns == {1}

\* Two setEmailConfig requests may be in progress at once.
Setters == {1, 2}

\* ------------------------------------------------------------------- state
VARIABLES
  today,        \* the wall-clock date (new Date().toDateString())
  cfgDb,        \* the active EmailConfig document in the database
  svc,          \* the EmailService singleton: transporter, currentConfig
  model,        \* the PromotionalEmail mongoose model: paths, methods, enum
  campaignDb,   \* the PromotionalEmail collection: id -> persisted document
  lastStart,    \* the last start request handled: inputs, what the
                \* pre-flight check saw, the verdict
  req,          \* per accepted request: recipients, response(s) issued
  task,         \* per campaign: the locals of sendEmailsInBackground
  trace,        \* per campaign: order of persist / respond / first send
  cancels,      \* per campaign: the answer to the last cancel request
  month,        \* the wall-clock month (getFullYear()-getMonth())
  configs,      \* the EmailConfig collection: _id -> persisted document
  nextId,       \* the _id the next EmailConfig.create assigns
  emailService, \* EmailService.currentConfig as a whole document (_id 0: null)
  init,         \* the initializeTransporter call in progress, if any
  setter,       \* per setEmailConfig request: how far it has come
  refs,         \* the configUsed of the stored campaign records
  sinceSuccess, \* per configuration: failed sends recorded since the last
                \* recorded success
  lastCompare,  \* the last quota comparison: where and when it was made,
                \* the document before its reset check and as compared
  report,       \* the last answer of getEmailStats / getSystemHealth
  campaign,     \* the campaign that is sending: its configUsed, and the
                \* configurations its emails were sent through
  jobs,         \* EmailCronJobs.jobs: the tasks scheduled so far
  analytics,    \* the window of daily EmailAnalytics points, oldest first
  trends        \* what calculateTrends returned for the window

\* The campaign side follows the active configuration by its quota fields
\* (cfgDb, svc); the configuration side follows the EmailConfig collection
\* document by document, with all its counters.
campaignVars == <<cfgDb, svc, model, campaignDb, lastStart, req, task, trace,
                  cancels>>

cfgVars == <<month, configs, nextId, emailService, init, setter, refs,
             sinceSuccess, lastCompare>>

auxVars == <<report, campaign, jobs, analytics, trends>>

vars == <<today, campaignVars, cfgVars, auxVars>>

\* ------------------------------------------------- PromotionalEmail schema
\* The schema as the repository defines it: no instance method, three
\* statuses, no totalRecipients / progress / endTime / errors paths.  (The
\* content paths and configUsed are written once by create and play no part
\* in the campaign life cycle; they are left out.)
SchemaPaths == {"sentCount", "failedCount", "status"}
SchemaMethods == {}
StatusEnum == {"sending", "completed", "failed"}

\* Schema defaults applied by create() to paths the caller leaves out.
SchemaDefaults == [sentCount |-> 0, failedCount |-> 0, status |-> "sending"]

SrcModel == [paths |-> SchemaPaths, methods |-> SchemaMethods,
             enum |-> StatusEnum, defaults |-> SchemaDefaults]

\* The schema the controller is written against (spec section 3).
AssumedPaths == SchemaPaths \cup {"totalRecipients", "progress", "startTime",
                                  "endTime", "errors", "performanceLog"}
AssumedMethods == {"addError", "addPerformanceLog", "updateStats"}
AssumedEnum == {"sending", "completed", "failed", "cancelled"}

AssumedDefaults == [sentCount |-> 0, failedCount |-> 0, status |-> "sending",
                    errors |-> <<>>, performanceLog |-> <<>>]

AssumedModel == [paths |-> AssumedPaths, methods |-> AssumedMethods,
                 enum |-> AssumedEnum, defaults |-> AssumedDefaults]

HasMethod(m) == m \in model.methods

Terminal == {"completed", "failed", "cancelled"}

\* PromotionalEmail.create(obj): strict mode drops the keys that are not
\* schema paths; defaulted paths are filled in.
CreateDoc(obj) ==
  [f \in (DOMAIN obj \cup DOMAIN model.defaults) \cap model.paths |->
     IF f \in DOMAIN obj THEN obj[f] ELSE model.defaults[f]]

\* doc.save(): validation of the modified paths (the status enum), then the
\* modified schema paths are written over the stored document.
SaveValid(doc, dirty) == ("status" \in dirty) => (doc.status \in model.enum)

SaveDoc(stored, doc, dirty) ==
  [f \in DOMAIN stored \cup ((dirty \cap model.paths) \cap DOMAIN doc) |->
     IF f \in dirty /\ f \in DOMAIN doc THEN doc[f] ELSE stored[f]]

\* Math.round(a / b) for a >= 0, b > 0
Round(a, b) == (2 * a + b) \div (2 * b)

Min(a, b) == IF a < b THEN a ELSE b

Pow2(n) == IF n <= 0 THEN 1 ELSE 2 ^ n

\* floor(log2(k)) for k >= 1
RECURSIVE Log2(_)
Log2(k) == IF k < 2 THEN 0 ELSE 1 + Log2(k \div 2)

\* For 0 < a < b: the t with 2^-t <= a/b < 2^(1-t)
RECURSIVE Shift(_, _)
Shift(a, b) == IF a >= b THEN 0 ELSE 1 + Shift(2 * a, b)

\* Binary long division: after e more quotient bits, the remainder of
\* a * 2^e / b and the last quotient bit.  The bits are produced up to
\* sixteen at a time (rho < b < 2^15, so rho * 2^16 stays below 2^31): the
\* remainder after s more bits is (rho * 2^s) % b and the last of those
\* bits is the parity of (rho * 2^s) \div b.
RECURSIVE LongDiv(_, _, _, _)
LongDiv(rho, bit, b, e) ==
  IF e = 0 THEN [rem |-> rho, odd |-> bit]
  ELSE LET s == Min(e, 16)
           q == rho * Pow2(s)
       IN LongDiv(q % b, (q \div b) % 2, b, e - s)

\* The double a / b (0 < a < b) has the 53-bit significand m that is nearest
\* to a * 2^(52+t) / b, ties to even.  DivError is m * b - a * 2^(52+t):
\* the error of the double, in units of 1 / (b * 2^(52+t)).
DivError(a, b) ==
  LET r == LongDiv(a, 0, b, 52 + Shift(a, b))
  IN IF 2 * r.rem > b THEN b - r.rem
     ELSE IF 2 * r.rem < b THEN 0 - r.rem
     ELSE IF r.odd = 1 THEN b - r.rem ELSE 0 - r.rem

\* Math.round((a / b) * 100) for 0 <= a <= b, 0 < b, in IEEE doubles as
\* JavaScript computes it.  Unless 100a/b is exactly k + 1/2, it lies at
\* least 1/(2b) from a rounding boundary and the two rounding errors (below
\* 2^-45) cannot move it across.  When it is exactly k + 1/2, the product
\* of the double a/b and 100 is k + 1/2 + 100 * DivError / (b * 2^(52+t));
\* it is rounded to a double below k + 1/2, and Math.round gives k, exactly
\* when it is more than half a spacing of doubles below k + 1/2.
JsPercent(a, b) ==
  LET k == (100 * a) \div b
      exactHalf == (200 * a) % b = 0 /\ ((200 * a) \div b) % 2 = 1
      e == IF k = 0 THEN Shift(a, b) - 2 ELSE Shift(a, b) + Log2(k)
  IN IF exactHalf
       THEN IF 200 * DivError(a, b) < 0 - b * Pow2(e) THEN k ELSE k + 1
       ELSE Round(100 * a, b)

\* ------------------------------------------------------------ EmailConfig
NoConfig == [active |-> FALSE, dailyLimit |-> 0, emailsSentToday |-> 0,
             lastResetDate |-> 0]

\* A configuration document is followed either by its quota fields only
\* (cfgDb, svc) or as a whole document (configs, emailService, init).
Whole(c) == "totalEmailsSent" \in DOMAIN c

\* Variant of the reset check that clears the counters and keeps the dates
\* they were last reset on.
resetDailyCounterIfNeeded_KeepsDate(c) ==
  LET d == IF today # c.lastResetDate THEN [c EXCEPT !.emailsSentToday = 0]
                                      ELSE c
  IN IF Whole(d) /\ d.currentMonth # month
       THEN [d EXCEPT !.monthlyEmailsSent = 0]
       ELSE d

\* Variant of the reset check that moves the reset date one day on.
resetDailyCounterIfNeeded_NextDay(c) ==
  LET d == IF today # c.lastResetDate
             THEN [c EXCEPT !.emailsSentToday = 0, !.lastResetDate = @ + 1]
             ELSE c
  IN IF Whole(d) /\ d.currentMonth # month
       THEN [d EXCEPT !.monthlyEmailsSent = 0, !.currentMonth = month]
       ELSE d

\* EmailConfigSchema.methods.resetDailyCounterIfNeeded (the in-memory part)
resetDailyCounterIfNeeded(c) ==
  LET d == IF today # c.lastResetDate
             THEN [c EXCEPT !.emailsSentToday = 0, !.lastResetDate = today]
             ELSE c
  IN IF Whole(d) /\ d.currentMonth # month
       THEN [d EXCEPT !.monthlyEmailsSent = 0, !.currentMonth = month]
       ELSE d

\* EmailConfigSchema.methods.updateSuccessRate (the in-memory part)
updateSuccessRate(c) ==
  LET totalAttempts == c.totalEmailsSent + c.totalEmailsFailed
  IN [c EXCEPT !.successRate =
        IF totalAttempts > 0 THEN JsPercent(c.totalEmailsSent, totalAttempts)
                             ELSE 0]

\* EmailConfigSchema.methods.recordSuccessfulSend (the in-memory part)
recordSuccessfulSend(c) ==
  IF Whole(c)
    THEN updateSuccessRate([c EXCEPT !.totalEmailsSent = @ + 1,
                                     !.emailsSentToday = @ + 1,
                                     !.monthlyEmailsSent = @ + 1,
                                     !.consecutiveFailures = 0])
    ELSE [c EXCEPT !.emailsSentToday = @ + 1]

\* EmailConfigSchema.methods.recordFailedSend (the in-memory part)
recordFailedSend(c) ==
  updateSuccessRate([c EXCEPT !.totalEmailsFailed = @ + 1,
                              !.consecutiveFailures = @ + 1])

\* Variant of the record that keeps the address last used.
recordSuspiciousActivity_KeepsIP(c, ipAddress) ==
  [c EXCEPT !.suspiciousActivityCount = @ + 1,
            !.lastSuspiciousActivity = today]

\* EmailConfigSchema.methods.recordSuspiciousActivity (the in-memory part)
recordSuspiciousActivity(c, ipAddress) ==
  [c EXCEPT !.suspiciousActivityCount = @ + 1,
            !.lastSuspiciousActivity = today,
            !.lastUsedIP = ipAddress]

\* The daily-limit test of initializeTransporter
LimitReached(c) == c.emailsSentToday >= c.dailyLimit

\* Variant of the pre-flight test that also refuses a campaign which would
\* use up exactly the quota left.
QuotaShort_OffByOne(c, n) == (c.dailyLimit - c.emailsSentToday) <= n

\* The pre-flight test of sendPromotionalEmail: remainingEmails < students.length
QuotaShort(c, n) == (c.dailyLimit - c.emailsSentToday) < n

NoService == [transporter |-> FALSE, loaded |-> FALSE, cfg |-> NoConfig]

\* EmailService.initializeTransporter: the outcome "ok" installs a fresh
\* transporter and caches the loaded document; the two throwing outcomes
\* leave the service as it was.  The reset is saved in every case where a
\* configuration was found.
InitOutcome ==
  IF ~cfgDb.active THEN "noconfig"
  ELSE IF LimitReached(resetDailyCounterIfNeeded(cfgDb)) THEN "limit"
  ELSE "ok"

CfgAfterInit == IF cfgDb.active THEN resetDailyCounterIfNeeded(cfgDb) ELSE cfgDb

SvcAfterInit ==
  IF InitOutcome = "ok"
    THEN [transporter |-> TRUE, loaded |-> TRUE, cfg |-> CfgAfterInit]
    ELSE svc

\* --------------------------------------- the EmailConfig collection, whole
ConfigIds == 1..MaxConfigs

\* req.ip of the requests: the address the administrator usually works
\* from, and another one.  NoIP is a lastUsedIP that was never set, Unknown
\* the default of the ipAddress parameter.
AdminIP == "ip1"
OtherIP == "ip2"
Unknown == "unknown"
NoIP == ""

\* A Date path that was never set (a day before every day on record).
NoDate == 0 - MaxDay - 1
ClientIPs == {AdminIP, OtherIP}

\* EmailConfig.create({..., dailyLimit, isActive: true}) with the schema
\* defaults
NewConfig(limit) ==
  [isActive |-> TRUE, dailyLimit |-> limit, emailsSentToday |-> 0,
   lastResetDate |-> today, monthlyEmailsSent |-> 0, currentMonth |-> month,
   totalEmailsSent |-> 0, totalEmailsFailed |-> 0, successRate |-> 0,
   consecutiveFailures |-> 0, lastUsedIP |-> NoIP,
   suspiciousActivityCount |-> 0, lastSuspiciousActivity |-> NoDate]

BlankConfig ==
  [isActive |-> FALSE, dailyLimit |-> 0, emailsSentToday |-> 0,
   lastResetDate |-> 0, monthlyEmailsSent |-> 0, currentMonth |-> 0,
   totalEmailsSent |-> 0, totalEmailsFailed |-> 0, successRate |-> 0,
   consecutiveFailures |-> 0, lastUsedIP |-> NoIP,
   suspiciousActivityCount |-> 0, lastSuspiciousActivity |-> NoDate]

\* The document of a configuration once the setEmailConfig request that
\* created it has initialized the service from it.
InstalledConfig(limit) == [NewConfig(limit) EXCEPT !.lastUsedIP = AdminIP]

\* EmailService after its constructor: transporter and currentConfig null
NullService == [id |-> 0, doc |-> BlankConfig]

NoInit == [pc |-> "idle", id |-> 0, doc |-> BlankConfig, ip |-> NoIP,
           by |-> "none"]

\* The fields of a configuration document that the reset check looks at.
ResetFields(c) ==
  [emailsSentToday |-> c.emailsSentToday, lastResetDate |-> c.lastResetDate,
   monthlyEmailsSent |-> c.monthlyEmailsSent, currentMonth |-> c.currentMonth]

NoCompare == [kind |-> "none", day |-> 0, mon |-> 0,
              before |-> ResetFields(BlankConfig),
              after |-> ResetFields(BlankConfig)]

\* What a quota comparison leaves behind: b is the document as loaded, d the
\* document the comparison reads.
Compared(kind, b, d) ==
  [kind |-> kind, day |-> today, mon |-> month,
   before |-> ResetFields(b), after |-> ResetFields(d)]

\* doc.save() of a configuration document: the paths whose value was changed
\* since the document was loaded or last saved are written; nothing is
\* written when the document is gone from the collection.
SaveConfig(db, id, before, after) ==
  IF id \in DOMAIN db
    THEN [db EXCEPT ![id] = [p \in DOMAIN db[id] |->
                               IF after[p] # before[p] THEN after[p]
                                                       ELSE db[id][p]]]
    ELSE db

ActiveIds == {i \in DOMAIN configs : configs[i].isActive}

\* EmailConfig.findOne({ isActive: true }): the first match in insertion
\* order, 0 for null
FindActive ==
  IF ActiveIds = {} THEN 0
  ELSE CHOOSE i \in ActiveIds : \A j \in ActiveIds : i <= j

\* ------------------------------------------------------------------- Init
\* What the last getEmailStats / getSystemHealth call read its answer
\* from: the cached configuration (with the health status derived from
\* it), or a configuration it first had to load.
NoReport == [op |-> "none", id |-> 0, status |-> "none"]

NoCampaign == [configUsed |-> 0, left |-> 0, via |-> {}]

\* A JavaScript number as far as the trend computation tells its values
\* apart: the quotient n / d of two integers, Infinity, -Infinity or NaN.
Finite(n, d) == [kind |-> "finite", n |-> n, d |-> d]
Infinite(kind) == [kind |-> kind, n |-> 0, d |-> 1]

\* a / b for integers a and b
JsDivide(a, b) ==
  IF b # 0 THEN Finite(a, b)
  ELSE IF a > 0 THEN Infinite("Infinity")
  ELSE IF a < 0 THEN Infinite("-Infinity")
  ELSE Infinite("NaN")

\* x * k for a positive integer k
JsTimes(x, k) == IF x.kind = "finite" THEN Finite(x.n * k, x.d) ELSE x

\* x || 0: NaN and 0 are falsy
JsOrZero(x) ==
  IF x.kind = "NaN" \/ (x.kind = "finite" /\ x.n = 0) THEN Finite(0, 1) ELSE x

\* calculateTrends: the emailsSent entry of its answer ({} for an empty
\* window)
NoTrends == [answer |-> "none", current |-> 0, previous |-> 0, trend |-> 0,
             trendPercentage |-> Finite(0, 1)]

calculateTrends(window) ==
  IF Len(window) = 0 THEN [NoTrends EXCEPT !.answer = "empty"]
  ELSE LET first == window[1]
           last == window[Len(window)]
       IN [answer |-> "trends",
           current |-> last.emailsSent,
           previous |-> first.emailsSent,
           trend |-> last.emailsSent - first.emailsSent,
           trendPercentage |->
             JsOrZero(JsTimes(JsDivide(last.emailsSent - first.emailsSent,
                                       first.emailsSent), 100))]

NoReq == [state |-> "none", n |-> 0, code |-> 0, responses |-> 0]

NoStart == [id |-> 0, n |-> 0, verdict |-> "none", code |-> 0,
            remaining |-> 0, sentSeen |-> 0]

\* The in-memory promotionalEmail document.  Assigning a property that is
\* not a schema path only sets it on the object in memory.
NewDoc == [status |-> "sending", sentCount |-> 0, failedCount |-> 0,
           progress |-> 0, endTime |-> 0, errors |-> <<>>,
           performanceLog |-> <<>>]

NoTask == [pc |-> "none", i |-> 0, sentCount |-> 0, failedCount |-> 0,
           batchSent |-> 0, batchFailed |-> 0, inflight |-> 0,
           all |-> "none", batches |-> <<>>, settled |-> 0,
           doc |-> NewDoc, dirty |-> {}]

\* No analytics request answered, no campaign sending, EmailCronJobs after
\* its constructor, no analytics point recorded.
InitAux ==
  /\ report = NoReport
  /\ campaign = NoCampaign
  /\ jobs = <<>>
  /\ analytics = <<>>
  /\ trends = NoTrends

InitCommon ==
  /\ today = 0
  /\ cfgDb = NoConfig
  /\ svc = NoService
  /\ campaignDb = <<>>
  /\ lastStart = NoStart
  /\ req = [r \in Campaigns |-> NoReq]
  /\ task = [r \in Campaigns |-> NoTask]
  /\ trace = [r \in Campaigns |-> <<>>]
  /\ cancels = [r \in Campaigns |-> 0]
  /\ InitAux

\* The configuration side at start-up: an empty collection.
InitEmpty ==
  /\ month = 0
  /\ configs = <<>>
  /\ nextId = 1
  /\ emailService = NullService
  /\ init = NoInit
  /\ setter = [s \in Setters |-> "idle"]
  /\ refs = {}
  /\ sinceSuccess = [i \in ConfigIds |-> 0]
  /\ lastCompare = NoCompare

\* The configuration side right after the first setEmailConfig request has
\* been answered: one active configuration, loaded into the service.
InitConfigured ==
  /\ month = 0
  /\ configs = [i \in {1} |-> InstalledConfig(SmallDailyLimit)]
  /\ nextId = 2
  /\ emailService = [id |-> 1, doc |-> InstalledConfig(SmallDailyLimit)]
  /\ init = NoInit
  /\ setter = [s \in Setters |-> "idle"]
  /\ refs = {}
  /\ sinceSuccess = [i \in ConfigIds |-> 0]
  /\ lastCompare = Compared("init", NewConfig(SmallDailyLimit),
                            InstalledConfig(SmallDailyLimit))

\* A configuration that has been in use for some days: created and last
\* reset on an earlier day, possibly in an earlier month, with sends on
\* record.
UsedConfigs ==
  {[InstalledConfig(SmallDailyLimit) EXCEPT
      !.lastResetDate = day, !.currentMonth = mon, !.emailsSentToday = e,
      !.monthlyEmailsSent = m, !.totalEmailsSent = t] :
     day \in (0 - MaxDay)..0, mon \in {0 - 1, 0}, e \in 0..MaxSends,
     m \in 0..MaxSends, t \in 0..MaxSends}

InitUsed ==
  /\ month = 0
  /\ \E c \in UsedConfigs :
       /\ (c.currentMonth < 0) => (c.lastResetDate < 0)
       /\ c.emailsSentToday <= c.monthlyEmailsSent
       /\ c.monthlyEmailsSent <= c.totalEmailsSent
       /\ c.emailsSentToday <= c.dailyLimit
       /\ configs = [i \in {1} |-> c]
       /\ emailService = [id |-> 1, doc |-> c]
  /\ nextId = 2
  /\ init = NoInit
  /\ setter = [s \in Setters |-> "idle"]
  /\ refs = {}
  /\ sinceSuccess = [i \in ConfigIds |-> 0]
  /\ lastCompare = NoCompare

InitReset == InitCommon /\ InitUsed /\ model = SrcModel

Init == InitCommon /\ InitEmpty /\ model = SrcModel

InitAssumed == InitCommon /\ InitEmpty /\ model = AssumedModel

InitCounters == InitCommon /\ InitConfigured /\ model = SrcModel

\* The campaign side right after a setEmailConfig request with the default
\* dailyLimit has been answered, over the schema the controller assumes.
InitProgress ==
  /\ today = 0
  /\ cfgDb = [active |-> TRUE, dailyLimit |-> DefaultDailyLimit,
              emailsSentToday |-> 0, lastResetDate |-> 0]
  /\ svc = [transporter |-> TRUE, loaded |-> TRUE, cfg |-> cfgDb]
  /\ campaignDb = <<>>
  /\ lastStart = NoStart
  /\ req = [r \in Campaigns |-> NoReq]
  /\ task = [r \in Campaigns |-> NoTask]
  /\ trace = [r \in Campaigns |-> <<>>]
  /\ cancels = [r \in Campaigns |-> 0]
  /\ InitAux
  /\ InitEmpty
  /\ model = AssumedModel

\* ------------------------------------------------------------------ clock
Tick ==
  /\ today < MaxDay
  /\ today' = today + 1
  /\ UNCHANGED <<cfgDb, svc, model, campaignDb, lastStart, req, task, trace, cancels, cfgVars, auxVars>>

\* ------------------------------------------------- configuration handlers
\* setEmailConfig: deactivate all, create the new active configuration with
\* schema defaults, re-initialize the service from it.  (The request as it
\* runs with no other request between its awaits; SetDeactivate, SetCreate
\* and SetInitialize take it step by step.)
SetEmailConfig(limit) ==
  /\ cfgDb' = [active |-> TRUE, dailyLimit |-> limit, emailsSentToday |-> 0,
               lastResetDate |-> today]
  /\ svc' = [transporter |-> TRUE, loaded |-> TRUE, cfg |-> cfgDb']
  /\ UNCHANGED <<today, model, campaignDb, lastStart, req, task, trace, cancels, cfgVars, auxVars>>

\* deleteEmailConfig: delete the document, reset the service.
DeleteEmailConfig ==
  /\ cfgDb.active
  /\ cfgDb' = NoConfig
  /\ svc' = NoService
  /\ UNCHANGED <<today, model, campaignDb, lastStart, req, task, trace, cancels, cfgVars, auxVars>>

\* ------------------------------------------------- start-campaign request
\* The answer of the chain checkEmailConfig, checkEmailLimit,
\* sendPromotionalEmail for n students with a valid address, on the
\* configuration document c as loaded (after its reset check).
MiddlewareVerdict(found, c) ==
  IF ~found THEN "noconfig"                        \* checkEmailConfig
  ELSE IF LimitReached(c) THEN "limit"             \* checkEmailConfig
  ELSE IF c.dailyLimit - c.emailsSentToday <= 0 THEN "limit" \* checkEmailLimit
  ELSE "next"

StartVerdict(found, c, n, valid) ==
  IF MiddlewareVerdict(found, c) # "next" THEN MiddlewareVerdict(found, c)
  ELSE IF ~valid THEN "invalid"
  ELSE IF ~found THEN "noconfig"
  ELSE IF n = 0 THEN "norecipients"
  ELSE IF QuotaShort(c, n) THEN "quota"
  ELSE "accept"

\* Start requests arrive while no campaign is active (spec section 5): the
\* campaign is not between its create and the settling of its last send.
Quiescent(q) ==
  /\ req[q].state # "created"
  /\ task[q].inflight = 0
  /\ task[q].pc \in {"none", "rejected", "failed", "completed"}

\* POST /promotional/send up to the point where PromotionalEmail.create has
\* written the record (or a 400 has been answered).  r is the id create
\* gives the record.
SendPromotionalEmail(r, n, valid) ==
  LET c == CfgAfterInit
      v == StartVerdict(cfgDb.active, c, n, valid)
  IN
  /\ v = "accept" => req[r].state = "none"
  /\ \A q \in Campaigns : Quiescent(q)
  /\ cfgDb' = c
  /\ svc' = SvcAfterInit
  /\ lastStart' = [id |-> IF v = "accept" THEN r ELSE 0, n |-> n,
                   verdict |-> v, code |-> IF v = "accept" THEN 0 ELSE 400,
                   remaining |-> c.dailyLimit - c.emailsSentToday,
                   sentSeen |-> c.emailsSentToday]
  /\ IF v = "accept"
       THEN /\ campaignDb' = [k \in DOMAIN campaignDb \cup {r} |->
                                IF k = r
                                  THEN CreateDoc([status |-> "sending",
                                                  totalRecipients |-> n,
                                                  startTime |-> today])
                                  ELSE campaignDb[k]]
            /\ req' = [req EXCEPT ![r] = [state |-> "created", n |-> n,
                                          code |-> 0, responses |-> 0]]
            /\ trace' = [trace EXCEPT ![r] = Append(@, "persisted")]
       ELSE UNCHANGED <<campaignDb, req, trace>>
  /\ UNCHANGED <<today, model, task, cancels, cfgVars, auxVars>>

\* The batch that starts at index i of n students: students.slice(i, i + 10)
BatchLen(i, n) == Min(batchSize, n - i)

\* for-loop head with i < students.length: every member's callback runs up
\* to its call of EmailService.sendEmail.
DispatchBatch(t, n) ==
  [t EXCEPT !.pc = "batch", !.batchSent = 0, !.batchFailed = 0,
            !.inflight = BatchLen(t.i, n), !.all = "pending",
            !.batches = Append(@, BatchLen(t.i, n))]

\* Variant of the handoff that starts the background loop and leaves the
\* answer to the end of the loop.
Handoff_AwaitLoop(r) ==
  /\ req[r].state = "created"
  /\ req' = [req EXCEPT ![r].state = "accepted"]
  /\ task' = [task EXCEPT ![r] = DispatchBatch(task[r], req[r].n)]
  /\ trace' = [trace EXCEPT ![r] = @ \o <<"send">>]
  /\ UNCHANGED <<today, cfgDb, svc, model, campaignDb, lastStart, cancels, cfgVars, auxVars>>

\* The continuation of `await PromotionalEmail.create`: res.status(200).json
\* and then the un-awaited call of sendEmailsInBackground, which runs to the
\* first await of the loop (Promise.all of the first batch).
Handoff(r) ==
  /\ req[r].state = "created"
  /\ req' = [req EXCEPT ![r].state = "accepted", ![r].code = 200,
                        ![r].responses = @ + 1]
  /\ task' = [task EXCEPT ![r] = DispatchBatch(task[r], req[r].n)]
  /\ trace' = [trace EXCEPT ![r] = @ \o <<"responded", "send">>]
  /\ UNCHANGED <<today, cfgDb, svc, model, campaignDb, lastStart, cancels, cfgVars, auxVars>>

\* ------------------------------------------------------ EmailService.sendEmail
\* What one call of sendEmail does by the time it settles.  want is what the
\* transport and the persistence of the outcome would do ("ok", "fail",
\* "throw"); the call throws in any case when no transporter can be
\* initialized or the cached configuration is gone.
SendOutcome(want) ==
  IF ~svc.transporter /\ InitOutcome # "ok" THEN "throw"
  ELSE IF svc.transporter /\ ~svc.loaded THEN "throw"
  ELSE want

SvcBeforeSend == IF svc.transporter THEN svc ELSE SvcAfterInit

CfgBeforeSend == IF svc.transporter THEN cfgDb ELSE CfgAfterInit

\* POST /config/test: checkEmailConfig re-initializes the service (a 400 when
\* that throws), then testEmailConfig sends one email through sendEmail.
\* (Test emails are sent only while fewer than MaxTestSent emails have been
\* sent today.)
testEmailConfig(want) ==
  /\ cfgDb.emailsSentToday < MaxTestSent
  /\ IF InitOutcome = "ok" /\ want = "ok"
       THEN /\ svc' = [SvcAfterInit EXCEPT !.cfg = recordSuccessfulSend(@)]
            /\ cfgDb' = [CfgAfterInit EXCEPT !.emailsSentToday = svc'.cfg.emailsSentToday]
       ELSE /\ svc' = SvcAfterInit
            /\ cfgDb' = CfgAfterInit
  /\ UNCHANGED <<today, model, campaignDb, lastStart, req, task, trace, cancels, cfgVars, auxVars>>

\* ----------------------------------------------------- sendEmailsInBackground
\* promotionalEmail.addError(address, message) where the method exists
AddError(doc, address) == [doc EXCEPT !.errors = Append(@, address)]

\* promotionalEmail.addPerformanceLog(batchNumber, sent, failed, ...) where
\* the method exists
AddPerformanceLog(doc, batchNumber, sent, failed) ==
  [doc EXCEPT !.performanceLog =
     Append(@, [batchNumber |-> batchNumber, sentInBatch |-> sent,
                failedInBatch |-> failed])]

\* The catch block of sendEmailsInBackground.
\* Returns the task and the stored document afterwards.
\* When addError is not a method the task ends as an unhandled rejection;
\* the process-level handler of server.js (311-314), which closes the
\* server, is outside this model: the stored record is what it was.
FatalHandler(t, stored) ==
  LET doc1 == [t.doc EXCEPT !.status = "failed", !.endTime = today]
      dirty1 == t.dirty \cup {"status", "endTime"}
  IN IF HasMethod("addError")
       THEN [task |-> [t EXCEPT !.pc = "failed", !.all = "rejected",
                                !.doc = AddError(doc1, "SYSTEM"),
                                !.dirty = {}],
             stored |-> SaveDoc(stored, AddError(doc1, "SYSTEM"),
                                dirty1 \cup {"errors"})]
       ELSE [task |-> [t EXCEPT !.pc = "rejected", !.all = "rejected",
                                !.doc = doc1, !.dirty = dirty1],
             stored |-> stored]

\* The statements after `await Promise.all(batchPromises)` up to the call of
\* addPerformanceLog.
AfterBatch(t, stored, n) ==
  LET doc1 == [t.doc EXCEPT !.sentCount = t.sentCount,
                            !.failedCount = t.failedCount,
                            !.progress = JsPercent(t.sentCount, n)]
      t1 == [t EXCEPT !.all = "resolved", !.doc = doc1,
                      !.dirty = @ \cup {"sentCount", "failedCount", "progress"}]
  IN IF HasMethod("addPerformanceLog")
       THEN [task |-> [t1 EXCEPT !.pc = "progress",
                         !.doc = AddPerformanceLog(@, (t.i \div batchSize) + 1,
                                                   t.batchSent, t.batchFailed),
                         !.dirty = @ \cup {"performanceLog"}],
             stored |-> stored]
       ELSE FatalHandler(t1, stored)

\* Variant of the callback that keeps the document's sentCount up to date
\* with every send.
Callback_CountsOnDocument(t, o) ==
  LET counted == [t EXCEPT !.sentCount = IF o = "ok" THEN @ + 1 ELSE @,
                           !.batchSent = IF o = "ok" THEN @ + 1 ELSE @,
                           !.failedCount = IF o # "ok" THEN @ + 1 ELSE @,
                           !.batchFailed = IF o # "ok" THEN @ + 1 ELSE @,
                           !.inflight = @ - 1, !.settled = @ + 1,
                           !.doc.sentCount = IF o = "ok" THEN @ + 1 ELSE @,
                           !.dirty = IF o = "ok" THEN @ \cup {"sentCount"}
                                                 ELSE @]
  IN IF o = "ok" THEN [task |-> counted, rejected |-> FALSE, logged |-> FALSE]
     ELSE IF HasMethod("addError")
       THEN [task |-> counted, rejected |-> FALSE, logged |-> TRUE]
       ELSE [task |-> counted, rejected |-> TRUE, logged |-> FALSE]

\* The body of one batch.map callback after sendEmail has settled with
\* outcome o: the counters, and whether the callback's promise is rejected.
Callback(t, o) ==
  LET counted == [t EXCEPT !.sentCount = IF o = "ok" THEN @ + 1 ELSE @,
                           !.batchSent = IF o = "ok" THEN @ + 1 ELSE @,
                           !.failedCount = IF o # "ok" THEN @ + 1 ELSE @,
                           !.batchFailed = IF o # "ok" THEN @ + 1 ELSE @,
                           !.inflight = @ - 1, !.settled = @ + 1]
      again == [counted EXCEPT !.failedCount = @ + 1, !.batchFailed = @ + 1]
  IN IF o = "ok" THEN [task |-> counted, rejected |-> FALSE, logged |-> FALSE]
     ELSE IF HasMethod("addError")
       THEN [task |-> counted, rejected |-> FALSE, logged |-> TRUE]
     ELSE IF o = "fail"
       \* addError throws inside the try block: the catch block counts the
       \* recipient again and its own addError throws out of the callback
       THEN [task |-> again, rejected |-> TRUE, logged |-> FALSE]
       ELSE [task |-> counted, rejected |-> TRUE, logged |-> FALSE]

\* One in-flight sendEmail of campaign r settles and its callback runs; the
\* continuation of Promise.all runs with it when this settles Promise.all.
SendSettles(r, want) ==
  LET o == SendOutcome(want)
      cb == Callback(task[r], o)
      t1 == IF cb.logged
              THEN [cb.task EXCEPT !.doc = AddError(@, "recipient"), !.dirty = {}]
              ELSE cb.task
      st1 == IF cb.logged
               THEN SaveDoc(campaignDb[r], t1.doc, task[r].dirty \cup {"errors"})
               ELSE campaignDb[r]
      next == IF task[r].all # "pending" THEN [task |-> t1, stored |-> st1]
              ELSE IF cb.rejected THEN FatalHandler(t1, st1)
              ELSE IF t1.inflight = 0 THEN AfterBatch(t1, st1, req[r].n)
              ELSE [task |-> t1, stored |-> st1]
  IN
  /\ task[r].inflight > 0
  /\ svc' = IF o = "ok"
              THEN [SvcBeforeSend EXCEPT !.cfg = recordSuccessfulSend(@)]
              ELSE SvcBeforeSend
  /\ cfgDb' = IF o = "ok"
                THEN [CfgBeforeSend EXCEPT !.emailsSentToday = svc'.cfg.emailsSentToday]
                ELSE CfgBeforeSend
  /\ task' = [task EXCEPT ![r] = next.task]
  /\ campaignDb' = [campaignDb EXCEPT ![r] = next.stored]
  /\ UNCHANGED <<today, model, lastStart, req, trace, cancels, cfgVars, auxVars>>

\* The save started by addPerformanceLog (and updateStats) lands; then the
\* inter-batch delay starts, or the loop is over and the completion block
\* runs up to its save.
ProgressWrite(r) ==
  LET t == task[r]
      more == t.i + batchSize < req[r].n
  IN
  /\ t.pc = "progress"
  /\ campaignDb' = [campaignDb EXCEPT ![r] = SaveDoc(@, t.doc, t.dirty)]
  /\ task' = [task EXCEPT ![r] =
       IF more
         THEN [t EXCEPT !.pc = "delay", !.dirty = {}]
         ELSE [t EXCEPT !.pc = "completing",
                        !.doc.status = "completed", !.doc.endTime = today,
                        !.dirty = {"status", "endTime"}]]
  /\ UNCHANGED <<today, cfgDb, svc, model, lastStart, req, trace, cancels, cfgVars, auxVars>>

\* Variant of the loop that starts the next batch without waiting for the
\* one in flight.
NextBatch_Overlapping(r) ==
  /\ task[r].pc \in {"batch", "delay"}
  /\ task[r].i + batchSize < req[r].n
  /\ task' = [task EXCEPT ![r] =
       [DispatchBatch([task[r] EXCEPT !.i = @ + batchSize], req[r].n)
          EXCEPT !.inflight = @ + task[r].inflight]]
  /\ UNCHANGED <<today, cfgDb, svc, model, campaignDb, lastStart, req, trace, cancels, cfgVars, auxVars>>

\* The inter-batch delay is over: i += batchSize and the next batch starts.
NextBatch(r) ==
  /\ task[r].pc = "delay"
  /\ task' = [task EXCEPT ![r] =
       DispatchBatch([task[r] EXCEPT !.i = @ + batchSize], req[r].n)]
  /\ UNCHANGED <<today, cfgDb, svc, model, campaignDb, lastStart, req, trace, cancels, cfgVars, auxVars>>

\* The save of the completion block lands.
CompleteWrite(r) ==
  /\ task[r].pc = "completing"
  /\ campaignDb' = [campaignDb EXCEPT ![r] = SaveDoc(@, task[r].doc, task[r].dirty)]
  /\ task' = [task EXCEPT ![r].pc = "completed", ![r].dirty = {}]
  /\ UNCHANGED <<today, cfgDb, svc, model, lastStart, req, trace, cancels, cfgVars, auxVars>>

\* ------------------------------------------------- cancelPromotionalEmail
CancelAnswer(r) ==
  IF r \notin DOMAIN campaignDb THEN 404
  ELSE IF campaignDb[r].status # "sending" THEN 400
  ELSE IF ~SaveValid([status |-> "cancelled"], {"status", "endTime"}) THEN 500
  ELSE 200

cancelPromotionalEmail(r) ==
  /\ cancels' = [cancels EXCEPT ![r] = CancelAnswer(r)]
  /\ campaignDb' = IF CancelAnswer(r) = 200
                     THEN [campaignDb EXCEPT ![r] =
                             SaveDoc(@, [status |-> "cancelled", endTime |-> today],
                                     {"status", "endTime"})]
                     ELSE campaignDb
  /\ UNCHANGED <<today, cfgDb, svc, model, lastStart, req, task, trace, cfgVars, auxVars>>

\* ------------------------------------------ the configuration side, whole
\* The date changes, and with it possibly the month.
Midnight(newMonth) ==
  /\ today < MaxDay
  /\ today' = today + 1
  /\ month' = IF newMonth THEN month + 1 ELSE month
  /\ UNCHANGED <<campaignVars, configs, nextId, emailService, init, setter,
                 refs, sinceSuccess, lastCompare, auxVars>>

\* setEmailConfig up to its first await: EmailConfig.updateMany({}, {isActive:
\* false}).  (Requests are taken while there is an _id left for them.)
SetDeactivate(s) ==
  /\ setter[s] = "idle"
  /\ nextId + Cardinality({q \in Setters : setter[q] = "deactivated"})
       <= MaxConfigs
  /\ configs' = [i \in DOMAIN configs |-> [configs[i] EXCEPT !.isActive = FALSE]]
  /\ setter' = [setter EXCEPT ![s] = "deactivated"]
  /\ UNCHANGED <<today, campaignVars, month, nextId, emailService, init, refs,
                 sinceSuccess, lastCompare, auxVars>>

\* setEmailConfig, second await: EmailConfig.create of the new active
\* configuration.
SetCreate(s, limit) ==
  /\ setter[s] = "deactivated"
  /\ configs' = [i \in DOMAIN configs \cup {nextId} |->
                   IF i = nextId THEN NewConfig(limit) ELSE configs[i]]
  /\ nextId' = nextId + 1
  /\ setter' = [setter EXCEPT ![s] = "created"]
  /\ UNCHANGED <<today, campaignVars, month, emailService, init, refs,
                 sinceSuccess, lastCompare, auxVars>>

\* initializeTransporter up to its first await: findOne of the active
\* configuration.  Without one the call throws.
\* Address changes are followed while the count of the active configuration
\* is below MaxSuspicious.
Countable(ip) ==
  FindActive # 0 =>
    \/ configs[FindActive].lastUsedIP \in {NoIP, ip}
    \/ configs[FindActive].suspiciousActivityCount < MaxSuspicious

LoadActive(ip, by) ==
  IF FindActive = 0 THEN NoInit
  ELSE [pc |-> "loaded", id |-> FindActive, doc |-> configs[FindActive],
        ip |-> ip, by |-> by]

\* setEmailConfig, third await: EmailService.initializeTransporter starts
\* (the request answers when that call is over).
SetInitialize(s, ip) ==
  /\ setter[s] = "created"
  /\ init.pc = "idle"
  /\ Countable(ip)
  /\ init' = LoadActive(ip, "set")
  /\ setter' = [setter EXCEPT ![s] = "idle"]
  /\ UNCHANGED <<today, campaignVars, month, configs, nextId, emailService,
                 refs, sinceSuccess, lastCompare, auxVars>>

\* checkEmailConfig in front of a request: initializeTransporter starts.
checkEmailConfig(ip) ==
  /\ init.pc = "idle"
  /\ FindActive # 0
  /\ Countable(ip)
  /\ init' = LoadActive(ip, "check")
  /\ UNCHANGED <<today, campaignVars, month, configs, nextId, emailService,
                 setter, refs, sinceSuccess, lastCompare, auxVars>>

\* The suspicious-activity check of initializeTransporter (the in-memory
\* part): a set lastUsedIP that differs from a given address is recorded,
\* otherwise lastUsedIP is overwritten.
checkSuspiciousActivity(c, ipAddress) ==
  IF ipAddress # NoIP /\ c.lastUsedIP # NoIP /\ c.lastUsedIP # ipAddress
    THEN recordSuspiciousActivity(c, ipAddress)
    ELSE [c EXCEPT !.lastUsedIP = ipAddress]

\* initializeTransporter after findOne: the reset check and its save, the
\* suspicious-activity check and its save, the daily-limit test, and the
\* loaded document becomes currentConfig.
initializeTransporter ==
  LET r == resetDailyCounterIfNeeded(init.doc)
      d == checkSuspiciousActivity(r, init.ip)
  IN
  /\ init.pc = "loaded"
  /\ configs' = SaveConfig(configs, init.id, init.doc, d)
  /\ lastCompare' = Compared("init", init.doc, d)
  /\ emailService' = IF LimitReached(d) THEN emailService
                                        ELSE [id |-> init.id, doc |-> d]
  /\ init' = NoInit
  /\ UNCHANGED <<today, campaignVars, month, nextId, setter, refs, sinceSuccess, auxVars>>

\* EmailService.sendEmail with a transporter, after sendMail has settled:
\* the outcome has been recorded on the document that is currentConfig now,
\* which leaves it as d, and the last save() was answered (saved) or
\* rejected.  ok: the last record made was one of success.
Recorded(d, saved, ok) ==
  LET c == emailService.doc
  IN
  /\ emailService.id # 0
  /\ c.totalEmailsSent + c.totalEmailsFailed < MaxSends
  /\ emailService' = [emailService EXCEPT !.doc = d]
  /\ configs' = IF saved THEN SaveConfig(configs, emailService.id, c, d)
                         ELSE configs
  /\ sinceSuccess' = [sinceSuccess EXCEPT ![emailService.id] =
                        IF ok THEN 0 ELSE @ + 1]
  /\ UNCHANGED <<today, campaignVars, month, nextId, init, setter, refs,
                 lastCompare>>

\* sendEmail where every save() is answered: sendMail resolves (ok) and the
\* success is recorded, or it rejects and the failure is recorded.
sendEmail(ok) ==
  /\ Recorded(IF ok THEN recordSuccessfulSend(emailService.doc)
                    ELSE recordFailedSend(emailService.doc), TRUE, ok)
  /\ UNCHANGED auxVars

\* sendEmail where sendMail resolves and the save() of recordSuccessfulSend
\* rejects: the catch block records a failure on the same document; its
\* save() writes all the paths modified so far, or rejects again and
\* sendEmail rejects.
sendEmailSaveRejects(again) ==
  /\ Recorded(recordFailedSend(recordSuccessfulSend(emailService.doc)),
              ~again, FALSE)
  /\ UNCHANGED auxVars

\* deleteEmailConfig(id): findById, findByIdAndDelete, the service is reset.
deleteEmailConfig(id) ==
  /\ id \in DOMAIN configs
  /\ configs' = [i \in DOMAIN configs \ {id} |-> configs[i]]
  /\ emailService' = NullService
  /\ UNCHANGED <<today, campaignVars, month, nextId, init, setter, refs,
                 sinceSuccess, lastCompare, auxVars>>

\* sendPromotionalEmail from findOne to PromotionalEmail.create, as the
\* configuration sees it: the reset check and its save, the pre-flight
\* test for n recipients, and the record's configUsed.  (Without an active
\* configuration or without recipients the request is answered before the
\* reset check.)
PreflightChecked(n) ==
  LET a == FindActive
      d == resetDailyCounterIfNeeded(configs[a])
  IN
  /\ a # 0
  /\ n > 0
  /\ configs' = SaveConfig(configs, a, configs[a], d)
  /\ lastCompare' = Compared("preflight", configs[a], d)
  /\ refs' = IF QuotaShort(d, n) THEN refs ELSE refs \cup {a}
  /\ UNCHANGED <<today, campaignVars, month, nextId, emailService, init,
                 setter, sinceSuccess>>

Preflight(n) == PreflightChecked(n) /\ UNCHANGED auxVars

\* A start request that passes the middleware chain on the cached active
\* configuration and the pre-flight test: the record is created with
\* configUsed and n emails are left to send in the background.
StartCampaign(n) ==
  /\ campaign.left = 0
  /\ emailService.id # 0 /\ emailService.id = FindActive
  /\ ~QuotaShort(resetDailyCounterIfNeeded(configs[FindActive]), n)
  /\ PreflightChecked(n)
  /\ campaign' = [configUsed |-> FindActive, left |-> n, via |-> {}]
  /\ UNCHANGED <<report, jobs, analytics, trends>>

\* An email of the campaign: EmailService.sendEmail with a transporter;
\* sendMail goes through the transporter of currentConfig and the outcome
\* is recorded on currentConfig.
campaignSend(ok) ==
  /\ campaign.left > 0
  /\ Recorded(IF ok THEN recordSuccessfulSend(emailService.doc)
                    ELSE recordFailedSend(emailService.doc), TRUE, ok)
  /\ campaign' = [campaign EXCEPT !.left = @ - 1,
                                  !.via = @ \cup {emailService.id}]
  /\ UNCHANGED <<report, jobs, analytics, trends>>

\* An email of the campaign when the service holds no transporter:
\* sendEmail starts initializeTransporter with the address of the start
\* request; without an active configuration that call throws and the
\* email is not sent.
campaignSendUnloaded ==
  /\ campaign.left > 0
  /\ emailService.id = 0
  /\ init.pc = "idle"
  /\ init' = LoadActive(AdminIP, "send")
  /\ campaign' = IF FindActive = 0 THEN [campaign EXCEPT !.left = @ - 1]
                                   ELSE campaign
  /\ campaign' # campaign \/ init' # init
  /\ UNCHANGED <<today, campaignVars, month, configs, nextId, emailService,
                 setter, refs, sinceSuccess, lastCompare, report, jobs,
                 analytics, trends>>

\* One campaign and single emails under configuration requests.
NextSending ==
  \/ SetDeactivate(1)
  \/ \E limit \in {SmallDailyLimit} : SetCreate(1, limit)
  \/ SetInitialize(1, AdminIP)
  \/ initializeTransporter
  \/ \E id \in ConfigIds : deleteEmailConfig(id)
  \/ \E n \in 1..MaxRecipients : StartCampaign(n)
  \/ \E ok \in BOOLEAN : campaignSend(ok)
  \/ campaignSendUnloaded
  \/ \E ok \in BOOLEAN : sendEmail(ok)
  \/ \E again \in BOOLEAN : sendEmailSaveRejects(again)

\* The requests that add, activate, use and delete configurations.
NextConfig ==
  \/ \E s \in Setters : SetDeactivate(s)
  \/ \E s \in Setters, limit \in {SmallDailyLimit} : SetCreate(s, limit)
  \/ \E s \in Setters : SetInitialize(s, AdminIP)
  \/ checkEmailConfig(AdminIP)
  \/ initializeTransporter
  \/ \E id \in ConfigIds : deleteEmailConfig(id)
  \/ \E n \in RecipientChoices : Preflight(n)

\* The counters of one configuration under sends, re-initializations,
\* pre-flight checks and the calendar.
NextCounters ==
  \/ \E newMonth \in BOOLEAN : Midnight(newMonth)
  \/ checkEmailConfig(AdminIP)
  \/ initializeTransporter
  \/ \E ok \in BOOLEAN : sendEmail(ok)
  \/ \E n \in RecipientChoices : Preflight(n)

\* recordDailyAnalytics at midnight: the point of a new day enters the
\* window, with the number of emails sent that day.
recordDailyAnalytics(sentToday) ==
  /\ Len(analytics) < MaxWindow
  /\ analytics' = Append(analytics, [emailsSent |-> sentToday])
  /\ UNCHANGED <<today, campaignVars, cfgVars, report, campaign, jobs, trends>>

\* getEmailAnalytics: the trends of the window are computed and answered.
getEmailAnalytics ==
  /\ trends' = calculateTrends(analytics)
  /\ UNCHANGED <<today, campaignVars, cfgVars, report, campaign, jobs,
                 analytics>>

\* The status getSystemHealth derives from the statistics.
HealthStatus(c) ==
  IF c.consecutiveFailures > 5 \/ c.successRate < 80 THEN "degraded"
                                                      ELSE "healthy"

\* EmailService.getEmailStats, called by op: without a cached configuration
\* it starts initializeTransporter with the default address (and throws
\* when there is no active configuration); with one it reads the cached
\* document.
Statistics(op) ==
  /\ emailService.id = 0 => (init.pc = "idle" /\ Countable(Unknown))
  /\ init' = IF emailService.id = 0 THEN LoadActive(Unknown, op) ELSE init
  /\ report' = [op |-> op, id |-> IF emailService.id = 0 THEN FindActive
                                                         ELSE emailService.id,
                 status |-> IF emailService.id = 0
                              THEN IF FindActive = 0 THEN "error"
                                                     ELSE "loading"
                              ELSE IF op = "health"
                                     THEN HealthStatus(emailService.doc)
                                     ELSE "stats"]
  /\ report' # report

getEmailStats ==
  /\ Statistics("stats")
  /\ UNCHANGED <<today, campaignVars, month, configs, nextId, emailService,
                 setter, refs, sinceSuccess, lastCompare, campaign, jobs,
                 analytics, trends>>

\* EmailService.getSystemHealth: getEmailStats, and the status derived
\* from its answer.
getSystemHealth ==
  /\ Statistics("health")
  /\ UNCHANGED <<today, campaignVars, month, configs, nextId, emailService,
                 setter, refs, sinceSuccess, lastCompare, campaign, jobs,
                 analytics, trends>>

\* The service under configuration requests from two addresses and under
\* the analytics requests.
NextService ==
  \/ \E s \in Setters : SetDeactivate(s)
  \/ \E s \in Setters, limit \in {SmallDailyLimit} : SetCreate(s, limit)
  \/ \E s \in Setters, ip \in ClientIPs : SetInitialize(s, ip)
  \/ \E ip \in ClientIPs : checkEmailConfig(ip)
  \/ initializeTransporter
  \/ \E id \in ConfigIds : deleteEmailConfig(id)
  \/ getEmailStats
  \/ getSystemHealth

\* The four schedules of EmailCronJobs, in the order initialize sets them up.
JobKinds == <<"dailyAnalytics", "performanceReset", "healthCheck",
              "monthlyReset">>

\* cron.schedule(..., { scheduled: true }): a task that is running from the
\* start and whose callback has not run yet
Scheduled(kind) == [kind |-> kind, running |-> TRUE, runs |-> 0]

\* EmailCronJobs.initialize (POST /cron/start): the four setup methods each
\* schedule a task and push it on this.jobs.
initialize ==
  /\ Len(jobs) < 4 * MaxInitialize
  /\ jobs' = jobs \o [k \in 1..4 |-> Scheduled(JobKinds[k])]
  /\ UNCHANGED <<today, campaignVars, cfgVars, report, campaign, analytics,
                 trends>>

\* EmailCronJobs.stopAll (POST /cron/stop): job.stop() on every task of
\* this.jobs.
stopAll ==
  /\ jobs' = [i \in DOMAIN jobs |-> [jobs[i] EXCEPT !.running = FALSE]]
  /\ UNCHANGED <<today, campaignVars, cfgVars, report, campaign, analytics,
                 trends>>

\* The schedule of task i is due: node-cron runs the callback of a task
\* that is running.
cronTick(i) ==
  /\ i \in DOMAIN jobs
  /\ jobs[i].running
  /\ jobs[i].runs < MaxRuns
  /\ jobs' = [jobs EXCEPT ![i].runs = @ + 1]
  /\ UNCHANGED <<today, campaignVars, cfgVars, report, campaign, analytics,
                 trends>>

NextCron ==
  \/ initialize
  \/ stopAll
  \/ \E i \in 1..(4 * MaxInitialize) : cronTick(i)

NextTrends ==
  \/ \E e \in 0..MaxEmails : recordDailyAnalytics(e)
  \/ getEmailAnalytics

\* The reset check on a configuration that has been in use, as the start
\* requests run it over the days.
NextReset ==
  \/ \E newMonth \in BOOLEAN : Midnight(newMonth)
  \/ \E n \in RecipientChoices : Preflight(n)

\* ------------------------------------------------------------ specification
Next ==
  \/ Tick
  \/ \E limit \in DailyLimitChoices : SetEmailConfig(limit)
  \/ DeleteEmailConfig
  \/ \E r \in Campaigns, n \in RecipientChoices, valid \in BOOLEAN :
       SendPromotionalEmail(r, n, valid)
  \/ \E r \in Campaigns : Handoff(r)
  \/ \E r \in Campaigns, want \in {"ok", "fail", "throw"} : SendSettles(r, want)
  \/ \E r \in Campaigns : cancelPromotionalEmail(r)
  \/ \E want \in {"ok", "fail", "throw"} : testEmailConfig(want)

Spec == Init /\ [][Next]_vars

\* The same controller code over the schema it is written against.
NextAssumed ==
  \/ Next
  \/ \E r \in Campaigns, n \in LongChoices : SendPromotionalEmail(r, n, TRUE)
  \/ \E r \in Campaigns : ProgressWrite(r)
  \/ \E r \in Campaigns : NextBatch(r)
  \/ \E r \in Campaigns : CompleteWrite(r)

SpecAssumed == InitAssumed /\ [][NextAssumed]_vars

\* One campaign of four batches run to its end, over the schema the
\* controller assumes.
NextProgress ==
  \/ \E r \in Campaigns, n \in ProgressChoices : SendPromotionalEmail(r, n, TRUE)
  \/ \E r \in Campaigns : Handoff(r)
  \/ \E r \in Campaigns, want \in {"ok", "fail"} : SendSettles(r, want)
  \/ \E r \in Campaigns : ProgressWrite(r)
  \/ \E r \in Campaigns : NextBatch(r)
  \/ \E r \in Campaigns : CompleteWrite(r)

SpecProgress == InitProgress /\ [][NextProgress]_vars

\* The EmailConfig collection and the EmailService, document by document.
SpecConfig == Init /\ [][NextConfig]_vars

SpecCounters == InitCounters /\ [][NextCounters]_vars

SpecReset == InitReset /\ [][NextReset]_vars

\* The counters of a configuration that has been in use, under sends,
\* re-initializations, pre-flight checks and the calendar.
SpecRollover == InitReset /\ [][NextCounters]_vars

SpecService == Init /\ [][NextService]_vars

SpecSending == InitCounters /\ [][NextSending]_vars

\* The scheduled tasks under start and stop requests.
SpecCron == Init /\ [][NextCron]_vars

\* The analytics window and the trends computed from it.
SpecTrends == Init /\ [][NextTrends]_vars

\* ------------------------------------------------------------------ helpers
RECURSIVE SumSeq(_)
SumSeq(q) == IF q = <<>> THEN 0 ELSE Head(q) + SumSeq(Tail(q))

\* sendEmailsInBackground has returned or thrown, and none of the sends it
\* dispatched is still in flight.
Over(r) == task[r].pc \in {"rejected", "failed", "completed"} /\ task[r].inflight = 0

Stored(r) == campaignDb[r]

C3_CountersBounded ==
  \A r \in Campaigns :
    /\ task[r].sentCount + task[r].failedCount <= req[r].n
    /\ task[r].sentCount + task[r].failedCount <= task[r].settled
    /\ r \in DOMAIN campaignDb
         => Stored(r).sentCount + Stored(r).failedCount <= req[r].n

\* --------------------------------------------------------------------- C4
\* C4: a start request for n recipients is accepted only if the quota left
\* after the reset check is at least n, and a request that passes the other
\* checks is accepted whenever it is; a request with too little quota
\* creates no record, sends nothing and leaves emailsSentToday at the value
\* the check saw.
C4_State ==
  /\ lastStart.verdict = "accept" => lastStart.remaining >= lastStart.n
  /\ lastStart.verdict = "quota" => lastStart.remaining < lastStart.n
  /\ lastStart.verdict = "accept" <=> lastStart.id \in Campaigns
  /\ \A r \in Campaigns :
       req[r].state # "none" <=> r \in DOMAIN campaignDb

C4_Step ==
  (lastStart' # lastStart /\ lastStart'.remaining < lastStart'.n)
    => /\ campaignDb' = campaignDb
       /\ task' = task
       /\ req' = req
       /\ lastStart'.code = 400
       /\ cfgDb'.emailsSentToday = lastStart'.sentSeen

C4_PreflightQuota == [](C4_State) /\ [][C4_Step]_vars

\* a request refused for quota after part of the daily quota was used
C4_Witness ==
  /\ lastStart.verdict = "quota"
  /\ lastStart.sentSeen > 0
  /\ lastStart.remaining > 0

\* --------------------------------------------------------------------- C5
\* C5: a start request without an active configuration or without
\* recipients creates no record and sends nothing, and every stored
\* campaign record has totalRecipients >= 1.
C5_State ==
  \A r \in DOMAIN campaignDb :
    /\ "totalRecipients" \in DOMAIN Stored(r)
    /\ Stored(r).totalRecipients >= 1

C5_Step ==
  (lastStart' # lastStart /\ lastStart'.verdict \in {"noconfig", "norecipients"})
    => campaignDb' = campaignDb /\ task' = task /\ lastStart'.code = 400

C5_FailFast == [](C5_State) /\ [][C5_Step]_vars

\* --------------------------------------------------------------------- C6
\* C6: a campaign of N recipients with no failed send and no cancel ends
\* completed after ceil(N/10) batches, with sentCount + failedCount = N
\* stored and ceil(N/10) performance-log entries.
C6_CompletesInBatches ==
  \A r \in DOMAIN campaignDb :
    (Over(r) /\ task[r].failedCount = 0 /\ cancels[r] # 200)
      => /\ Stored(r).status = "completed"
         /\ Len(task[r].batches) = (req[r].n + batchSize - 1) \div batchSize
         /\ Stored(r).sentCount + Stored(r).failedCount = req[r].n
         /\ "performanceLog" \in DOMAIN Stored(r)
         /\ Len(Stored(r).performanceLog) = Len(task[r].batches)

\* --------------------------------------------------------------------- C7
\* C7: a failed send never ends the loop: when the loop is over after a
\* failed send, it returned normally, every recipient was attempted once
\* and the campaign is completed.
C7_FailureDoesNotAbort ==
  \A r \in DOMAIN campaignDb :
    (task[r].failedCount > 0 /\ task[r].pc \notin {"batch", "progress", "delay", "completing"}
       /\ cancels[r] # 200)
      => /\ task[r].pc = "completed"
         /\ SumSeq(task[r].batches) = req[r].n
         /\ Stored(r).status = "completed"

\* --------------------------------------------------------------------- C8
\* C8: when an exception has escaped the batch loop, the stored record has
\* status failed, an endTime and a SYSTEM entry in its error log.
C8_FatalIsRecorded ==
  \A r \in DOMAIN campaignDb :
    task[r].all = "rejected"
      => /\ Stored(r).status = "failed"
         /\ "endTime" \in DOMAIN Stored(r)
         /\ "errors" \in DOMAIN Stored(r)
         /\ \E k \in 1..Len(Stored(r).errors) : Stored(r).errors[k] = "SYSTEM"

\* --------------------------------------------------------------------- C9
\* C9: an accepted campaign does not stay in sending: once its background
\* task is over and all its sends have settled, the stored status is
\* completed, failed or cancelled.
C9_EndsTerminal ==
  \A r \in DOMAIN campaignDb : Over(r) => Stored(r).status \in Terminal

\* -------------------------------------------------------------------- C10
\* C10: the record is stored and the 200 answered before the first send of
\* a campaign, and nothing that happens in the background adds a response
\* to the request or changes its answer.
C10_FireAndForget ==
  \A r \in Campaigns :
    /\ req[r].responses <= 1
    /\ task[r].batches # <<>>
         => /\ r \in DOMAIN campaignDb
            /\ req[r].responses = 1 /\ req[r].code = 200
            /\ trace[r] = <<"persisted", "responded", "send">>
    /\ trace[r] \in {<<>>, <<"persisted">>, <<"persisted", "responded", "send">>}

\* the background task has died and the caller's only answer is the 200
C10_Witness ==
  \E r \in Campaigns :
    task[r].pc = "rejected" /\ req[r].responses = 1 /\ req[r].code = 200

\* -------------------------------------------------------------------- C11
\* C11: a cancel request succeeds (200) exactly on a stored campaign whose
\* status is sending, and then the stored status is cancelled and an endTime
\* is stored; on any other campaign or a missing id it answers 400 or 404
\* and the collection is left as it was.
C11_CancelOnlyWhileSending ==
  [][\A r \in Campaigns :
       cancelPromotionalEmail(r) =>
         IF r \in DOMAIN campaignDb /\ Stored(r).status = "sending"
           THEN /\ cancels'[r] = 200
                /\ campaignDb'[r].status = "cancelled"
                /\ "endTime" \in DOMAIN campaignDb'[r]
           ELSE /\ cancels'[r] \in {400, 404}
                /\ campaignDb' = campaignDb]_vars

\* -------------------------------------------------------------------- C13
\* C13: with one campaign at a time, the active configuration's
\* emailsSentToday stays within 0..dailyLimit in every state, whatever
\* campaign sends, test emails and reset checks interleave.
C13_QuotaInvariant ==
  cfgDb.active => /\ 0 <= cfgDb.emailsSentToday
                  /\ cfgDb.emailsSentToday <= cfgDb.dailyLimit

\* -------------------------------------------------------------------- C16
\* C16: when one send of a campaign fails with a transport error, the
\* campaign's failedCount goes up by exactly 1 and its error log gains
\* exactly one entry, for the failing recipient.  (The configuration's
\* consecutiveFailures is followed by SpecCounters.)
C16_FailedSendAccounting ==
  [][\A r \in DOMAIN campaignDb :
       (task[r].inflight > 0 /\ SendOutcome("fail") = "fail"
          /\ SendSettles(r, "fail"))
         => /\ task'[r].failedCount = task[r].failedCount + 1
            /\ Len(task'[r].doc.errors) = Len(task[r].doc.errors) + 1
            /\ task'[r].doc.errors[Len(task'[r].doc.errors)] = "recipient"]_vars

\* -------------------------------------------------------------------- C12
\* C12: at most one stored configuration is active in every state, also
\* while the steps of two setEmailConfig requests interleave.
C12_SingleActive == Cardinality(ActiveIds) <= 1

\* -------------------------------------------------------------------- C14
\* C14: a configuration that a stored campaign record references through
\* configUsed is never removed from the collection.
C14_ReferencedIsKept ==
  [][\A i \in refs : i \in DOMAIN configs => i \in DOMAIN configs']_vars

\* -------------------------------------------------------------------- C15
\* C15: the stored lifetime counters of a configuration are never negative
\* and never go down from one state to the next, also when the transporter
\* is re-initialized while sends are being recorded.
C15_State ==
  \A i \in DOMAIN configs :
    configs[i].totalEmailsSent >= 0 /\ configs[i].totalEmailsFailed >= 0

C15_Step ==
  \A i \in DOMAIN configs \cap DOMAIN configs' :
    /\ configs'[i].totalEmailsSent >= configs[i].totalEmailsSent
    /\ configs'[i].totalEmailsFailed >= configs[i].totalEmailsFailed

C15_LifetimeMonotone == [](C15_State) /\ [][C15_Step]_vars

C18_State ==
  \A i \in DOMAIN configs : configs[i].consecutiveFailures = sinceSuccess[i]

C18_Step ==
  /\ sendEmail(TRUE) => emailService'.doc.consecutiveFailures = 0
  /\ sendEmail(FALSE) => emailService'.doc.consecutiveFailures
                            = emailService.doc.consecutiveFailures + 1

C18_ConsecutiveFailures == [](C18_State) /\ [][C18_Step]_vars

\* -------------------------------------------------------------------- C19
\* C19: after every recorded send the stored successRate of the
\* configuration is round(100 * totalEmailsSent / (totalEmailsSent +
\* totalEmailsFailed)), and successRate is within 0..100 in every state.
C19_State ==
  \A i \in DOMAIN configs :
    configs[i].successRate >= 0 /\ configs[i].successRate <= 100

C19_Step ==
  (\E ok \in BOOLEAN : sendEmail(ok)) =>
    \A i \in DOMAIN configs' \cap {emailService.id} :
      configs'[i].successRate =
        Round(100 * configs'[i].totalEmailsSent,
              configs'[i].totalEmailsSent + configs'[i].totalEmailsFailed)

C19_SuccessRate == [](C19_State) /\ [][C19_Step]_vars

\* -------------------------------------------------------------------- C20
\* C20: the reset check sets emailsSentToday to 0 and lastResetDate to the
\* current date together when the date differs from lastResetDate (and
\* monthlyEmailsSent to 0 with currentMonth when the month differs) and
\* changes none of these fields otherwise; every quota comparison, at
\* pre-flight and at transporter initialization, reads a document the check
\* has been applied to.
C20_ResetThenCompare ==
  LET b == lastCompare.before
      a == lastCompare.after
  IN lastCompare.kind # "none" =>
       /\ a.lastResetDate = lastCompare.day
       /\ a.currentMonth = lastCompare.mon
       /\ IF b.lastResetDate # lastCompare.day
            THEN a.emailsSentToday = 0
            ELSE a.emailsSentToday = b.emailsSentToday
       /\ IF b.currentMonth # lastCompare.mon
            THEN a.monthlyEmailsSent = 0
            ELSE a.monthlyEmailsSent = b.monthlyEmailsSent

\* a pre-flight comparison on a new day of a new month, on a configuration
\* that had sent before: its counters were reset and its dates moved
C20_Witness ==
  /\ lastCompare.kind = "preflight"
  /\ lastCompare.before.emailsSentToday > 0
  /\ lastCompare.before.monthlyEmailsSent > 0
  /\ lastCompare.before.lastResetDate # lastCompare.day
  /\ lastCompare.before.currentMonth # lastCompare.mon
  /\ lastCompare.after.emailsSentToday = 0

\* C21: resetDailyCounterIfNeeded is idempotent within one day and month.
\* Right after a start request has run the reset check on the active
\* configuration and saved it, running the check again on the saved
\* document, on the same day and in the same month, changes none of
\* its fields.
C21_ResetIdempotent ==
  [][(\E n \in RecipientChoices : Preflight(n))
       => (resetDailyCounterIfNeeded(configs[FindActive])
             = configs[FindActive])']_vars

\* The check has just cleared a daily counter that was not zero, on a
\* configuration last reset more than a day before.
C21_Witness ==
  /\ lastCompare.kind = "preflight"
  /\ lastCompare.day = today /\ lastCompare.mon = month
  /\ lastCompare.before.emailsSentToday > 0
  /\ lastCompare.before.lastResetDate < today - 1
  /\ configs[FindActive].emailsSentToday = 0
  /\ configs[FindActive].lastResetDate = today

\* C29: in every state of a sender configuration, stored or held by the
\* service, emailsSentToday <= monthlyEmailsSent <= totalEmailsSent, under
\* recorded sends, reset checks and day and month rollovers.
Ordered(c) ==
  /\ c.emailsSentToday <= c.monthlyEmailsSent
  /\ c.monthlyEmailsSent <= c.totalEmailsSent

C29_CountersOrdered ==
  /\ \A i \in DOMAIN configs : Ordered(configs[i])
  /\ emailService.id # 0 => Ordered(emailService.doc)


\* C23: the percentage delta of the sent count over a window is
\* ((last - first) / first) * 100 when the first point's emailsSent is not
\* zero, and 0 when it is zero, whatever the last point's value.
C23_TrendPercentage ==
  trends.answer = "trends" =>
    LET p == trends.trendPercentage
    IN /\ p.kind = "finite"
       /\ IF trends.previous # 0
            THEN p.n * trends.previous
                   = 100 * (trends.current - trends.previous) * p.d
            ELSE p.n = 0

\* C30: after any sequence of initialize and stopAll calls at most one
\* running task exists for each of the four schedules, and right after
\* stopAll no task scheduled by an earlier initialize is running.
C30_State ==
  \A k \in 1..4 :
    Cardinality({i \in DOMAIN jobs :
                   jobs[i].kind = JobKinds[k] /\ jobs[i].running}) <= 1

C30_Step == stopAll => (\A i \in DOMAIN jobs : ~jobs[i].running)'

C30_OneInstancePerJob == [](C30_State) /\ [][C30_Step]_vars

\* C22: getEmailStats and getSystemHealth are read-only.  No step of
\* either, the initialization they run without a cached configuration
\* included, changes a field of a stored sender configuration or a
\* campaign record.
C22_ReadOnly ==
  [][(\/ getEmailStats
      \/ getSystemHealth
      \/ (initializeTransporter /\ init.by \in {"stats", "health"}))
       => (configs' = configs /\ campaignDb' = campaignDb)]_vars

\* C26: transporter initialization from address a.  A lastUsedIP that is
\* set and differs from a raises suspiciousActivityCount by exactly 1 and
\* records lastSuspiciousActivity; otherwise the count is unchanged.  In
\* both cases lastUsedIP is a afterwards, in the stored document and in the
\* one the call works on, and the call fails only on the daily limit.
C26_SuspiciousActivity ==
  [][initializeTransporter =>
       LET b == init.doc
           a == init.ip
           changed == b.lastUsedIP # NoIP /\ b.lastUsedIP # a
           stored == configs'[init.id]
       IN /\ init.id \in DOMAIN configs' =>
               /\ stored.lastUsedIP = a
               /\ stored.suspiciousActivityCount
                    = configs[init.id].suspiciousActivityCount
                        + (IF changed THEN 1 ELSE 0)
               /\ changed => stored.lastSuspiciousActivity = today
               /\ ~changed => stored.lastSuspiciousActivity
                                = configs[init.id].lastSuspiciousActivity
          /\ \/ /\ emailService'.id = init.id
                /\ emailService'.doc.lastUsedIP = a
                /\ emailService'.doc.suspiciousActivityCount
                     = b.suspiciousActivityCount + (IF changed THEN 1 ELSE 0)
             \/ /\ LimitReached(resetDailyCounterIfNeeded(b))
                /\ emailService' = emailService]_vars

\* An initialization from another address than the one last used has been
\* recorded and the service runs on the document.
C26_Witness ==
  /\ emailService.id # 0
  /\ emailService.doc.lastUsedIP = OtherIP
  /\ emailService.doc.suspiciousActivityCount = 1
  /\ emailService.id \in DOMAIN configs
  /\ configs[emailService.id].suspiciousActivityCount = 1
  /\ configs[emailService.id].lastUsedIP = OtherIP

\* C27: every sendEmail call that reaches the transport adds exactly 1 to
\* exactly one of totalEmailsSent and totalEmailsFailed of the
\* configuration it records on, also when the transport succeeds and
\* persisting the success record throws.
C27_OneCounterPerAttempt ==
  [][(\/ \E ok \in BOOLEAN : sendEmail(ok)
      \/ \E ok \in BOOLEAN : campaignSend(ok)
      \/ \E again \in BOOLEAN : sendEmailSaveRejects(again))
       => LET sent == emailService'.doc.totalEmailsSent
                        - emailService.doc.totalEmailsSent
              failed == emailService'.doc.totalEmailsFailed
                          - emailService.doc.totalEmailsFailed
          IN <<sent, failed>> \in {<<1, 0>>, <<0, 1>>}]_vars

\* C28: every email of a campaign is sent through, and counted on, the
\* configuration in the campaign's configUsed, also when setEmailConfig
\* activates another configuration or deleteEmailConfig resets the service
\* while the campaign is sending.
C28_SentThroughConfigUsed ==
  campaign.configUsed # 0 => campaign.via \subseteq {campaign.configUsed}

\* C24: the batches of a campaign are processed in input order and never
\* overlap.  At most batchSize sends of a campaign are in flight; a batch is
\* dispatched only when every send of the batches before it has settled,
\* and it is the batch of the next batchSize recipients.
C24_State == \A r \in Campaigns : task[r].inflight <= batchSize

C24_Step ==
  \A r \in Campaigns :
    task'[r].batches # task[r].batches =>
      /\ task[r].inflight = 0
      /\ task'[r].i = task[r].settled
      /\ task'[r].i = batchSize * Len(task[r].batches)
      /\ task'[r].inflight = BatchLen(task'[r].i, req'[r].n)
      /\ task'[r].batches = Append(task[r].batches, task'[r].inflight)

ProgressFields(r) ==
  <<campaignDb[r].sentCount, campaignDb[r].failedCount,
    IF "progress" \in DOMAIN campaignDb[r] THEN campaignDb[r].progress
                                           ELSE 0 - 1>>

====
